---- MODULE Spec2Model ----
(***************************************************************************)
(* The conversation store, the turn orchestrator (submitMessage) and the   *)
(* message stream assembler (updateLastMessage) of the App component.      *)
(*                                                                         *)
(* A string is a sequence of tokens.  A token is one character (" ", "a",  *)
(* the cursor glyph, the characters of the '/generate ' directive) or one  *)
(* fixed literal of the program taken whole (the loading sentinel, the     *)
(* stop marker, an error text).  Conversation ids 'chat_<Date.now()>' are  *)
(* modelled by their timestamp.                                            *)
(*                                                                         *)
(* One action is one run of JavaScript between two suspension points: an   *)
(* event handler, or the continuation of an await.  State updates are      *)
(* rendered before the next event, so a handler started by a UI event sees *)
(* the current state; a continuation of an async function and the speech   *)
(* recognition handlers see the state captured by their closure.           *)
(***************************************************************************)
EXTENDS Integers, Sequences, FiniteSets, TLC

\* ------------------------------------------------------------------ bounds
MaxClock == 3       \* Date.now() takes the values 1..MaxClock
MaxTurns == 2       \* turns accepted by submitMessage in one run
MaxChunks == 2      \* chunks delivered by one stream
MaxErrors == 1      \* error messages appended outside a turn's own catch

\* --------------------------------------------------------------- constants
NULL == "null"
NoChat == 0
GLYPH == "▋"
LOADING_INDICATOR_CONTENT == <<"___LOADING___">>
\* the dashes of the source text are em dashes
STOP_MARKER == <<"\n\n- Generation stopped by user -">>
NEW_CHAT == <<"New Chat">>
GENERATE_DIRECTIVE == <<"/", "g", "e", "n", "e", "r", "a", "t", "e", " ">>

USER == "user"
MODEL == "model"
ERROR == "error"

\* ----------------------------------------------------------------- strings
RECURSIVE TrimStart(_)
TrimStart(s) ==
    IF Len(s) > 0 /\ s[1] = " " THEN TrimStart(Tail(s)) ELSE s

RECURSIVE TrimEnd(_)
TrimEnd(s) ==
    IF Len(s) > 0 /\ s[Len(s)] = " " THEN TrimEnd(SubSeq(s, 1, Len(s) - 1)) ELSE s

Trim(s) == TrimEnd(TrimStart(s))

StartsWith(s, p) == Len(s) >= Len(p) /\ SubSeq(s, 1, Len(p)) = p

EndsWith(s, c) == Len(s) > 0 /\ s[Len(s)] = c

Substring(s, n) == SubSeq(s, n + 1, Len(s))

SliceEnd(s) == SubSeq(s, 1, Len(s) - 1)

\* ------------------------------------------------------------ input domains
\* Message contents offered to submitMessage: empty, whitespace only, plain
\* text, an image-generation directive, and one with leading whitespace.
Inputs ==
    { <<>>, <<" ">>, <<"h">>,
      GENERATE_DIRECTIVE \o <<"c">>,
      <<" ">> \o GENERATE_DIRECTIVE \o <<"c">> }

\* Chunk texts a stream delivers: empty, a letter, the glyph character itself.
ChunkTexts == { <<>>, <<"a">>, <<GLYPH>> }

\* A file of the file input: its name, its MIME type and its size in bytes.
File(name, type, size) == [name |-> name, type |-> type, size |-> size]

MAX_SIZE_MB == 10

\* Files offered to handleFileChange: an image of exactly the size limit, an
\* image one byte above it, a text file, and a file above the limit whose type
\* lacks the 'image/' prefix.
Files ==
    { File("f1", <<"image/", "png">>, MAX_SIZE_MB * 1024 * 1024),
      File("f2", <<"image/", "png">>, MAX_SIZE_MB * 1024 * 1024 + 1),
      File("f3", <<"text/", "plain">>, 1),
      File("f4", <<"image">>, MAX_SIZE_MB * 1024 * 1024 + 1) }

NoFile == File("", <<>>, 0)


\* ------------------------------------------------------------------- state
VARIABLES
    conversations,   \* useState: id -> [id, title, messages]
    currentChatId,   \* useState: active conversation id, NoChat for null
    isLoading,       \* useState: a turn is in flight
    isStopped,       \* isStoppedRef.current
    imageFile,       \* useState: staged file, NULL for none
    imagePreview,    \* useState: data URL of the staged file, NULL for none
    apiKey,          \* process.env.API_KEY is set (fixed for a run)
    now,             \* Date.now()
    booted,          \* the load effect has run
    turns,           \* every submitMessage call that passed its guard
    recog,           \* closure of the handlers of recognitionRef.current
    session,         \* closure of the recognition that is recording (a set: none or one)
    timers,          \* pending setTimeout(() => submitMessage(transcript), 100)
    readers,         \* FileReaders of handleFileChange still reading
    errs,            \* error messages appended by addMessageToCurrentChat
    titleTasks,      \* conversations whose getChatTitle call has not resolved
    storage,         \* localStorage: aiChatConversations, aiChatCurrentId, aiChatTtsEnabled
    isTtsEnabled,    \* useState: speech output of responses is enabled
    isSummaryModalOpen, \* useState: the summary surface is shown
    summaryContent,  \* useState: the text of the summary surface
    isSummarizing,   \* useState: a summary is being generated
    summaryCalls,    \* generateContent calls of handleSummarize not yet settled
    userInput,       \* useState: the draft in the message input
    lastOp           \* the last operation, for the properties below

vars == << conversations, currentChatId, isLoading, isStopped, imageFile,
           imagePreview, apiKey, now, booted, turns, recog, session, timers,
           readers, errs, titleTasks, storage, isTtsEnabled, isSummaryModalOpen,
           summaryContent, isSummarizing, summaryCalls, userInput, lastOp >>

summaryVars == << isSummaryModalOpen, summaryContent, isSummarizing, summaryCalls >>

\* ------------------------------------------------------------ store helpers
Message(role, content, imageUrl) ==
    [role |-> role, content |-> content, imageUrl |-> imageUrl]

NewConversation(id) == [id |-> id, title |-> NEW_CHAT, messages |-> <<>>]

\* { ...prev, [id]: conv }
Put(convs, id, conv) ==
    [k \in DOMAIN convs \cup {id} |-> IF k = id THEN conv ELSE convs[k]]

\* delete newConversations[id]
Remove(convs, id) == [k \in DOMAIN convs \ {id} |-> convs[k]]

Max(S) == CHOOSE x \in S : \A y \in S : y <= x

\* current.messages.push(message), when the conversation exists
Push(convs, chatId, msgs) ==
    IF chatId \in DOMAIN convs
    THEN [convs EXCEPT ![chatId].messages = @ \o msgs]
    ELSE convs

\* current.messages.pop(); current.messages.push(message)
PopPush(convs, chatId, message) ==
    IF chatId \in DOMAIN convs
    THEN [convs EXCEPT ![chatId].messages =
              Append(IF Len(@) = 0 THEN @ ELSE SliceEnd(@), message)]
    ELSE convs

AddMessageToCurrentChat(convs, chatId, message) ==
    IF chatId = NoChat THEN convs ELSE Push(convs, chatId, <<message>>)

\* lastMessage.content = currentContent + contentChunk + (isDone ? '' : GLYPH)
AssembleContent(currentContent, contentChunk, isDone) ==
    LET base == IF currentContent = LOADING_INDICATOR_CONTENT THEN <<>>
                ELSE IF EndsWith(currentContent, GLYPH) THEN SliceEnd(currentContent)
                ELSE currentContent
    IN  base \o contentChunk \o (IF isDone THEN <<>> ELSE <<GLYPH>>)

UpdateLastMessage(convs, chatId, contentChunk, isDone) ==
    IF chatId = NoChat \/ chatId \notin DOMAIN convs THEN convs
    ELSE LET messages == convs[chatId].messages
             n == Len(messages)
         IN  IF n > 0 /\ messages[n].role = MODEL
             THEN [convs EXCEPT ![chatId].messages[n].content =
                       AssembleContent(@, contentChunk, isDone)]
             ELSE convs

\* autoSpeak(text) of a render in which isTtsEnabled was tts: the texts handed to
\* speechSynthesis (speak returns at once on an empty text)
AutoSpeak(tts, text) == IF tts /\ text # <<>> THEN <<text>> ELSE <<>>

\* The state a function of the current render closes over.
Closure(loading, file, preview, chatId, tts) ==
    [isLoading |-> loading, imageFile |-> file, imagePreview |-> preview,
     currentChatId |-> chatId, isTtsEnabled |-> tts]

Fresh == Closure(isLoading, imageFile, imagePreview, currentChatId, isTtsEnabled)

\* The speech effect depends on currentChatId only: it installs handlers that
\* close over the render in which currentChatId changed.
Reinstall(newChatId) ==
    IF newChatId # currentChatId
    THEN Closure(isLoading, imageFile, imagePreview, newChatId, isTtsEnabled)
    ELSE recog

\* The last operation: its name, whether it took its main branch, its turn, and
\* for a store operation its argument and the active id it found.
OpA(name, flag, t, id, active, file) ==
    [op |-> name, flag |-> flag, t |-> t, id |-> id, active |-> active, file |-> file]

OpD(name, flag, id, active) == OpA(name, flag, 0, id, active, NoFile)

OpT(name, flag, t) == OpA(name, flag, t, NoChat, NoChat, NoFile)

Op(name) == OpT(name, FALSE, 0)

OpF(name, flag) == OpT(name, flag, 0)

\* ----------------------------------------------------------------- storage
\* localStorage: whether aiChatConversations is absent ("none"), cannot be read or
\* parsed ("unreadable") or holds a conversation map ("saved"), and aiChatCurrentId.
Stored(state, convs, id, tts) ==
    [state |-> state, conversations |-> convs, currentId |-> id, tts |-> tts]

\* the copy saved with its image payloads
KeepImages(convs) == convs

\* JSON.parse(JSON.stringify(conversations)) with imageUrl deleted from every message
Strip(convs) ==
    [k \in DOMAIN convs |->
        [convs[k] EXCEPT !.messages =
            [i \in 1..Len(@) |-> [@[i] EXCEPT !.imageUrl = NULL]]]]

\* The save effect, run after the render that follows the handler.
SaveEffect ==
    storage' = Stored("saved", Strip(conversations'),
                      IF currentChatId' # NoChat THEN currentChatId' ELSE storage.currentId,
                      isTtsEnabled')

\* -------------------------------------------------------------------- Init
Init ==
    /\ conversations = << >>
    /\ currentChatId = NoChat
    /\ isLoading = FALSE
    /\ isStopped = FALSE
    /\ imageFile = NULL
    /\ imagePreview = NULL
    /\ apiKey \in BOOLEAN
    /\ now = 1
    /\ booted = FALSE
    /\ turns = << >>
    /\ recog = Closure(FALSE, NULL, NULL, NoChat, FALSE)
    /\ session = {}
    /\ timers = {}
    /\ readers = {}
    /\ errs = 0
    /\ titleTasks = {}
    /\ storage = Stored("none", << >>, NoChat, FALSE)
    /\ isTtsEnabled = FALSE
    /\ isSummaryModalOpen = FALSE
    /\ summaryContent = <<>>
    /\ isSummarizing = FALSE
    /\ summaryCalls = {}
    /\ userInput = <<>>
    /\ lastOp = Op("init")

\* ------------------------------------------------------------ store actions
Tick ==
    /\ now < MaxClock
    /\ now' = now + 1
    /\ UNCHANGED << conversations, currentChatId, isLoading, isStopped, imageFile,
                    imagePreview, apiKey, titleTasks, isTtsEnabled, booted, turns, recog, session, timers,
                    readers, errs, storage, lastOp >>
    /\ UNCHANGED summaryVars
    /\ UNCHANGED userInput

\* the first id of an ascending sort
Oldest(ids) == CHOOSE x \in ids : \A y \in ids : x <= y

\* Object.keys(...).sort((a, b) => parseInt(b.split('_')[1]) - parseInt(a.split('_')[1]))[0]
MostRecent(ids) == Max(ids)

\* startNewChat: the new conversation replaces any conversation of the same id.
StartNewChatEffect ==
    /\ conversations' = Put(conversations, now, NewConversation(now))
    /\ currentChatId' = now
    /\ recog' = Reinstall(now)

\* The load effect that always takes the most recently created loaded conversation
BootstrapIgnoresSavedId ==
    LET readable == storage.state = "saved"
        loadedConversations == IF readable THEN storage.conversations ELSE << >>
    IN  /\ ~booted
        /\ booted' = TRUE
        /\ IF readable /\ DOMAIN loadedConversations # {}
           THEN /\ conversations' = loadedConversations
                /\ currentChatId' = MostRecent(DOMAIN loadedConversations)
                /\ recog' = Reinstall(currentChatId')
           ELSE StartNewChatEffect
        \* setIsTtsEnabled(savedTts === 'true') is not reached when the load throws
        /\ isTtsEnabled' = (storage.state # "unreadable" /\ storage.tts)
        /\ lastOp' = OpD("bootstrap", readable /\ DOMAIN loadedConversations # {},
                         storage.currentId, NoChat)
        /\ UNCHANGED << isLoading, isStopped, imageFile, imagePreview, apiKey, titleTasks, now,
                        turns, session, timers, readers, errs >>
        /\ UNCHANGED summaryVars
        /\ UNCHANGED userInput
        /\ SaveEffect

\* The load effect and the renders it causes: conversations is still the empty map
\* when startNewChat runs, after a missing or unreadable aiChatConversations.
Bootstrap ==
    LET readable == storage.state = "saved"
        loadedConversations == IF readable THEN storage.conversations ELSE << >>
        savedChatId == storage.currentId
    IN  /\ ~booted
        /\ booted' = TRUE
        /\ IF readable /\ savedChatId # NoChat /\ savedChatId \in DOMAIN loadedConversations
           THEN /\ conversations' = loadedConversations
                /\ currentChatId' = savedChatId
                /\ recog' = Reinstall(currentChatId')
           ELSE IF readable /\ DOMAIN loadedConversations # {}
           THEN /\ conversations' = loadedConversations
                /\ currentChatId' = MostRecent(DOMAIN loadedConversations)
                /\ recog' = Reinstall(currentChatId')
           ELSE StartNewChatEffect
        \* setIsTtsEnabled(savedTts === 'true') is not reached when the load throws
        /\ isTtsEnabled' = (storage.state # "unreadable" /\ storage.tts)
        /\ lastOp' = OpD("bootstrap", readable /\ DOMAIN loadedConversations # {},
                         savedChatId, NoChat)
        /\ UNCHANGED << isLoading, isStopped, imageFile, imagePreview, apiKey, titleTasks, now,
                        turns, session, timers, readers, errs >>
        /\ UNCHANGED summaryVars
        /\ UNCHANGED userInput
        /\ SaveEffect

StartNewChat ==
    /\ booted
    /\ StartNewChatEffect
    /\ lastOp' = Op("startNewChat")
    /\ UNCHANGED << isLoading, isStopped, imageFile, imagePreview, apiKey, titleTasks, isTtsEnabled, now,
                    booted, turns, session, timers, readers, errs >>
    /\ UNCHANGED summaryVars
    /\ UNCHANGED userInput
    /\ SaveEffect

\* switchChat without the test that the conversation exists
SwitchChatUnchecked(id) ==
    /\ booted
    /\ currentChatId' = id
    /\ recog' = Reinstall(currentChatId')
    /\ lastOp' = OpD("switchChat", id \in DOMAIN conversations, id, currentChatId)
    /\ UNCHANGED << conversations, isLoading, isStopped, imageFile, imagePreview,
                    apiKey, titleTasks, isTtsEnabled, now, booted, turns, session, timers, readers, errs >>
    /\ UNCHANGED summaryVars
    /\ UNCHANGED userInput
    /\ SaveEffect

SwitchChat(id) ==
    /\ booted
    /\ currentChatId' = IF id \in DOMAIN conversations THEN id ELSE currentChatId
    /\ recog' = Reinstall(currentChatId')
    /\ lastOp' = OpD("switchChat", id \in DOMAIN conversations, id, currentChatId)
    /\ UNCHANGED << conversations, isLoading, isStopped, imageFile, imagePreview,
                    apiKey, titleTasks, isTtsEnabled, now, booted, turns, session, timers, readers, errs >>
    /\ UNCHANGED summaryVars
    /\ UNCHANGED userInput
    /\ SaveEffect

\* The turns in flight on conversation id when deleteChat(id) removes it.
MarkDeleted(id) ==
    [t \in 1..Len(turns) |->
        IF turns[t].chat = id /\ turns[t].pc # "done"
        THEN [turns[t] EXCEPT !.deleted = TRUE]
        ELSE turns[t]]

\* deleteChat without the test currentChatId === id
DeleteChatSwitches(id) ==
    LET newConversations == Remove(conversations, id)
        remainingIds == DOMAIN newConversations
    IN  /\ booted
        /\ id \in DOMAIN conversations
        /\ IF remainingIds # {}
           THEN /\ conversations' = newConversations
                /\ currentChatId' = MostRecent(remainingIds)
           ELSE /\ conversations' = Put(newConversations, now, NewConversation(now))
                /\ currentChatId' = now
        /\ recog' = Reinstall(currentChatId')
        /\ turns' = MarkDeleted(id)
        /\ lastOp' = OpD("deleteChat", DOMAIN conversations = {id}, id, currentChatId)
        /\ UNCHANGED << isLoading, isStopped, imageFile, imagePreview, apiKey, titleTasks, isTtsEnabled, now,
                        booted, session, timers, readers, errs >>
        /\ UNCHANGED summaryVars
        /\ UNCHANGED userInput
        /\ SaveEffect

\* deleteChat without the branch that synthesizes a conversation when none remain
DeleteChatNoFresh(id) ==
    LET newConversations == Remove(conversations, id)
        remainingIds == DOMAIN newConversations
    IN  /\ booted
        /\ id \in DOMAIN conversations
        /\ conversations' = newConversations
        /\ currentChatId' = IF currentChatId = id /\ remainingIds # {}
                            THEN MostRecent(remainingIds)
                            ELSE currentChatId
        /\ recog' = Reinstall(currentChatId')
        /\ turns' = MarkDeleted(id)
        /\ lastOp' = OpD("deleteChat", DOMAIN conversations = {id}, id, currentChatId)
        /\ UNCHANGED << isLoading, isStopped, imageFile, imagePreview, apiKey, titleTasks, isTtsEnabled, now,
                        booted, session, timers, readers, errs >>
        /\ UNCHANGED summaryVars
        /\ UNCHANGED userInput
        /\ SaveEffect

DeleteChat(id) ==
    LET newConversations == Remove(conversations, id)
        remainingIds == DOMAIN newConversations
    IN  /\ booted
        /\ id \in DOMAIN conversations
        /\ IF currentChatId = id
           THEN IF remainingIds # {}
                THEN /\ conversations' = newConversations
                     /\ currentChatId' = MostRecent(remainingIds)
                ELSE /\ conversations' = Put(newConversations, now, NewConversation(now))
                     /\ currentChatId' = now
           ELSE /\ conversations' = newConversations
                /\ currentChatId' = currentChatId
        /\ recog' = Reinstall(currentChatId')
        /\ turns' = MarkDeleted(id)
        /\ lastOp' = OpD("deleteChat", DOMAIN conversations = {id}, id, currentChatId)
        /\ UNCHANGED << isLoading, isStopped, imageFile, imagePreview, apiKey, titleTasks, isTtsEnabled, now,
                        booted, session, timers, readers, errs >>
        /\ UNCHANGED summaryVars
        /\ UNCHANGED userInput
        /\ SaveEffect


\* -------------------------------------------------------------- submitMessage
ERR_GENERIC == "An error occurred: "
ERR_IMAGE == "Sorry, I couldn't process that image. "
ERR_GENERATE == "Sorry, the image could not be generated. "

IsGenerate(messageContent) == StartsWith(Trim(messageContent), GENERATE_DIRECTIVE)

\* The branch of the try block a turn takes.
PathOf(messageContent, localImageFile) ==
    IF IsGenerate(messageContent) THEN "generate"
    ELSE IF localImageFile # NULL THEN "image"
    ELSE "text"

\* messageContent.substring('/generate '.length).trim()
PromptOf(messageContent) == Trim(Substring(messageContent, Len(GENERATE_DIRECTIVE)))

FriendlyMessage(messageContent, localImageFile, detail) ==
    IF localImageFile # NULL THEN <<ERR_IMAGE, detail>>
    ELSE IF IsGenerate(messageContent) THEN <<ERR_GENERATE, detail>>
    ELSE <<ERR_GENERIC, detail>>

\* The outcome of the generateContent call of getChatTitle: it throws, or it
\* returns a text.
TitleResponse(ok, text) == [ok |-> ok, text |-> text]

TitleResponses ==
    { TitleResponse(FALSE, <<>>),
      TitleResponse(TRUE, <<>>),
      TitleResponse(TRUE, <<"'", " ">>),
      TitleResponse(TRUE, <<"Topic">>),
      TitleResponse(TRUE, <<"\"", "Topic", "\"", " ">>) }

\* text.replace(/["']/g, "")
RemoveQuotes(s) == SelectSeq(s, LAMBDA c : c \notin {"\"", "'"})

\* getChatTitle: "New Chat" without an API key, when the call throws, and when
\* the cleaned text is empty
GetChatTitle(key, response) ==
    IF ~key \/ ~response.ok THEN NEW_CHAT
    ELSE LET text == Trim(RemoveQuotes(response.text))
         IN  IF text = <<>> THEN NEW_CHAT ELSE text

\* the title updater applied to every conversation of the store
SetTitleEverywhere(convs, chatId, newTitle) ==
    IF chatId \in DOMAIN convs
    THEN [k \in DOMAIN convs |-> [convs[k] EXCEPT !.title = newTitle]]
    ELSE convs

\* { ...prev, [localChatId]: { ...prev[localChatId], title: newTitle } }
SetTitle(convs, chatId, newTitle) ==
    IF chatId \in DOMAIN convs THEN [convs EXCEPT ![chatId].title = newTitle] ELSE convs

\* the title test without isFirstMessage
StartsTitleAlways(convs, chatId, messageContent) ==
    /\ chatId \in DOMAIN convs
    /\ messageContent # <<>>
    /\ ~StartsWith(Trim(messageContent), SliceEnd(GENERATE_DIRECTIVE))

\* isFirstMessage && userMessage.content && !content.trim().startsWith('/generate')
StartsTitle(convs, chatId, messageContent) ==
    /\ chatId \in DOMAIN convs
    /\ Len(convs[chatId].messages) = 0
    /\ messageContent # <<>>
    /\ ~StartsWith(Trim(messageContent), SliceEnd(GENERATE_DIRECTIVE))

\* conversations[localChatId].messages.filter(...).slice(0, -2).map(...)
ChatHistory(messages) ==
    LET kept == SelectSeq(messages, LAMBDA m : m.role # ERROR /\ m.imageUrl = NULL)
    IN  [i \in 1..(IF Len(kept) > 2 THEN Len(kept) - 2 ELSE 0) |->
            [role |-> kept[i].role, text |-> kept[i].content]]

\* the guard of submitMessage without the trim of the content
AcceptsUntrimmed(messageContent, cl) ==
    ~( (messageContent = <<>> /\ cl.imageFile = NULL)
       \/ cl.isLoading
       \/ cl.currentChatId = NoChat )

\* The guard of submitMessage, on the state its closure captured.
Accepts(messageContent, cl) ==
    ~( (Trim(messageContent) = <<>> /\ cl.imageFile = NULL)
       \/ cl.isLoading
       \/ cl.currentChatId = NoChat )

InFlight(t) == turns[t].pc # "done"

\* the catch block of submitMessage for turn t without its finally block
CatchWithoutFinally(t, detail) ==
    /\ conversations' =
           PopPush(conversations, turns[t].chat,
                   Message(ERROR,
                           FriendlyMessage(turns[t].content, turns[t].file, detail),
                           NULL))
    /\ isLoading' = isLoading
    /\ turns' = [turns EXCEPT ![t].pc = "done", ![t].outcome = "error"]

\* catch + finally of submitMessage for turn t
Catch(t, detail) ==
    /\ conversations' =
           PopPush(conversations, turns[t].chat,
                   Message(ERROR,
                           FriendlyMessage(turns[t].content, turns[t].file, detail),
                           NULL))
    /\ isLoading' = FALSE
    /\ turns' = [turns EXCEPT ![t].pc = "done", ![t].outcome = "error"]

\* submitMessage(messageContent) run by a function that closes over cl, up to
\* its first await (or to its end, when it throws before any await).
SubmitMessage(messageContent, cl) ==
    LET localChatId == cl.currentChatId
        localImageFile == cl.imageFile
        userMessage == Message(USER, messageContent, cl.imagePreview)
        placeholder == Message(MODEL, LOADING_INDICATOR_CONTENT, NULL)
        pushed == Push(conversations, localChatId, <<userMessage, placeholder>>)
        path == PathOf(messageContent, localImageFile)
        detail == IF ~apiKey THEN "API_KEY environment variable not set."
                  ELSE "Please provide a prompt for image generation."
        throws == ~apiKey \/ (path = "generate" /\ PromptOf(messageContent) = <<>>)
        titled == StartsTitle(conversations, localChatId, messageContent)
        before == IF localChatId \in DOMAIN conversations
                  THEN conversations[localChatId].messages ELSE <<>>
        turn == [ chat |-> localChatId,
                  content |-> messageContent,
                  file |-> localImageFile,
                  path |-> path,
                  pc |-> IF throws THEN "done"
                         ELSE CASE path = "generate" -> "generateImages"
                                [] path = "image" -> "fileToBase64"
                                [] OTHER -> "sendMessageStream",
                  fullResponse |-> <<>>,
                  chunks |-> 0,
                  \* The histories chat.create can be given.  The updater that
                  \* pushes the user message and the placeholder runs inside
                  \* setConversations when React computes the state eagerly (no
                  \* update pending on the component), otherwise in the next
                  \* render: line 446, which no await separates from line 329,
                  \* reads the array after the push or before it.
                  histories |-> IF path = "text" /\ ~throws
                                THEN { ChatHistory(before \o <<userMessage, placeholder>>),
                                       ChatHistory(before) }
                                ELSE {},
                  before |-> before,
                  \* autoSpeak of the closure, and the texts it has passed to speak
                  tts |-> cl.isTtsEnabled,
                  spoken |-> <<>>,
                  outcome |-> IF throws THEN "error" ELSE "none",
                  \* bookkeeping for the properties
                  idx |-> IF localChatId \in DOMAIN conversations
                          THEN Len(conversations[localChatId].messages) + 2 ELSE 0,
                  titled |-> titled,
                  active |-> currentChatId,
                  firstUser |-> localChatId \in DOMAIN conversations
                                /\ \A i \in 1..Len(conversations[localChatId].messages) :
                                       conversations[localChatId].messages[i].role # USER,
                  staged |-> imageFile,
                  busy |-> isLoading,
                  remote |-> IF throws \/ path = "image" THEN 0 ELSE 1,
                  stopReq |-> FALSE,
                  stopPc |-> "",
                  stopFull |-> <<>>,
                  late |-> FALSE,
                  deleted |-> FALSE ]
    IN  /\ Accepts(messageContent, cl)
        /\ Len(turns) < MaxTurns
        /\ userInput' = <<>>
        /\ imageFile' = NULL
        /\ imagePreview' = NULL
        /\ isStopped' = FALSE
        /\ turns' = Append(turns, turn)
        \* getChatTitle returns "New Chat" at once without an API key
        /\ titleTasks' = IF titled /\ apiKey THEN titleTasks \cup {localChatId}
                          ELSE titleTasks
        /\ IF throws
           THEN /\ conversations' =
                       LET failed == PopPush(pushed, localChatId,
                                             Message(ERROR,
                                                     FriendlyMessage(messageContent,
                                                                     localImageFile, detail),
                                                     NULL))
                       IN  IF titled /\ ~apiKey
                           THEN SetTitle(failed, localChatId,
                                         GetChatTitle(apiKey, TitleResponse(FALSE, <<>>)))
                           ELSE failed
                /\ isLoading' = FALSE
           ELSE /\ conversations' = pushed
                /\ isLoading' = TRUE

\* handleSuggestionClick(messageContent), or handleSendMessage of a draft typed
\* just before it: submitMessage of the current render.
Submit(messageContent) ==
    /\ booted
    /\ IF Accepts(messageContent, Fresh)
       THEN /\ SubmitMessage(messageContent, Fresh)
            /\ lastOp' = OpT("submit", TRUE, Len(turns) + 1)
       ELSE /\ lastOp' = OpF("submit", FALSE)
            /\ UNCHANGED << conversations, isLoading, isStopped, imageFile,
                            imagePreview, turns, titleTasks, userInput >>
    /\ UNCHANGED << currentChatId, apiKey, isTtsEnabled, now, booted, recog, session,
                    timers, readers, errs >>
    /\ UNCHANGED summaryVars
    /\ SaveEffect

\* getChatTitle(...).then(newTitle => ...) once the generateContent call of
\* getChatTitle has returned response
TitleResolves(chatId, response) ==
    /\ chatId \in titleTasks
    /\ titleTasks' = titleTasks \ {chatId}
    /\ conversations' = SetTitle(conversations, chatId, GetChatTitle(apiKey, response))
    /\ lastOp' = OpD("titleResolves", response.ok, chatId, currentChatId)
    /\ UNCHANGED << currentChatId, isLoading, isStopped, imageFile, imagePreview,
                    apiKey, isTtsEnabled, now, booted, turns, recog, session, timers,
                    readers, errs >>
    /\ UNCHANGED summaryVars
    /\ UNCHANGED userInput
    /\ SaveEffect

\* handleStop: the send button is the stop button while isLoading.
HandleStop ==
    /\ booted
    /\ isLoading
    /\ isStopped' = TRUE
    /\ turns' = [t \in 1..Len(turns) |->
                    IF InFlight(t) /\ ~turns[t].stopReq
                    THEN [turns[t] EXCEPT !.stopReq = TRUE, !.stopPc = turns[t].pc,
                                          !.stopFull = turns[t].fullResponse]
                    ELSE turns[t]]
    /\ lastOp' = Op("handleStop")
    /\ UNCHANGED << conversations, currentChatId, isLoading, imageFile, imagePreview,
                    apiKey, titleTasks, isTtsEnabled, now, booted, recog, session, timers, readers, errs >>
    /\ UNCHANGED summaryVars
    /\ UNCHANGED userInput
    /\ SaveEffect


\* ------------------------------------------------- continuations of a turn
TurnFrame == << currentChatId, isStopped, imageFile, imagePreview, apiKey, titleTasks, isTtsEnabled, now,
                booted, recog, session, timers, readers, errs >>

At(t, pc) == t \in 1..Len(turns) /\ turns[t].pc = pc

\* What a continuation applies to the store after stop was requested counts as
\* late output when it changes the store.
Late(t, convs) == turns[t].late \/ (turns[t].stopReq /\ convs # conversations)

\* await chat.sendMessageStream(...) resolves
StreamCreated(t) ==
    /\ At(t, "sendMessageStream")
    /\ turns' = [turns EXCEPT ![t].pc = "stream"]
    /\ lastOp' = OpT("streamCreated", TRUE, t)
    /\ UNCHANGED << conversations, isLoading >>
    /\ UNCHANGED TurnFrame
    /\ UNCHANGED summaryVars
    /\ UNCHANGED userInput
    /\ SaveEffect

\* await chat.sendMessageStream(...) rejects
StreamCreateFails(t) ==
    /\ At(t, "sendMessageStream")
    /\ Catch(t, "stream")
    /\ lastOp' = OpT("turnFails", TRUE, t)
    /\ UNCHANGED TurnFrame
    /\ UNCHANGED summaryVars
    /\ UNCHANGED userInput
    /\ SaveEffect

\* the branch after the for-await loop, and finally
EndOfStream(t) ==
    /\ isLoading' = FALSE
    /\ IF isStopped
       THEN /\ conversations' =
                   UpdateLastMessage(conversations, turns[t].chat, STOP_MARKER, TRUE)
            /\ turns' = [turns EXCEPT ![t].pc = "done", ![t].outcome = "cancelled"]
       ELSE /\ conversations' =
                   UpdateLastMessage(conversations, turns[t].chat, <<>>, TRUE)
            /\ turns' = [turns EXCEPT
                            ![t].pc = "done", ![t].outcome = "finalized",
                            ![t].spoken = @ \o AutoSpeak(turns[t].tts, turns[t].fullResponse)]

\* one iteration of for await (const chunk of stream)
ChunkArrives(t, textChunk) ==
    /\ At(t, "stream")
    /\ turns[t].chunks < MaxChunks
    /\ IF isStopped
       THEN /\ EndOfStream(t)
            /\ lastOp' = OpT("streamBreaks", TRUE, t)
       ELSE LET updated == UpdateLastMessage(conversations, turns[t].chat, textChunk, FALSE)
            IN  /\ conversations' = updated
                /\ turns' = [turns EXCEPT
                                ![t].fullResponse = @ \o textChunk,
                                ![t].chunks = @ + 1,
                                ![t].late = Late(t, updated)]
                /\ isLoading' = isLoading
                /\ lastOp' = OpT("chunk", TRUE, t)
    /\ UNCHANGED TurnFrame
    /\ UNCHANGED summaryVars
    /\ UNCHANGED userInput
    /\ SaveEffect

\* the stream is exhausted
StreamEnds(t) ==
    /\ At(t, "stream")
    /\ EndOfStream(t)
    /\ lastOp' = OpT("streamEnds", TRUE, t)
    /\ UNCHANGED TurnFrame
    /\ UNCHANGED summaryVars
    /\ UNCHANGED userInput
    /\ SaveEffect

\* the stream iterator throws
StreamThrows(t) ==
    /\ At(t, "stream")
    /\ Catch(t, "stream")
    /\ lastOp' = OpT("turnFails", TRUE, t)
    /\ UNCHANGED TurnFrame
    /\ UNCHANGED summaryVars
    /\ UNCHANGED userInput
    /\ SaveEffect

\* await ai.models.generateImages(...) resolves
GenerateImagesReturns(t) ==
    LET modelMessage == Message(MODEL, <<">", " ">> \o PromptOf(turns[t].content), "generated")
        updated == PopPush(conversations, turns[t].chat, modelMessage)
    IN  /\ At(t, "generateImages")
        /\ conversations' = updated
        /\ isLoading' = FALSE
        /\ turns' = [turns EXCEPT ![t].pc = "done", ![t].outcome = "finalized",
                                  ![t].late = Late(t, updated)]
        /\ lastOp' = OpT("imageGenerated", TRUE, t)
        /\ UNCHANGED TurnFrame
        /\ UNCHANGED summaryVars
        /\ UNCHANGED userInput
        /\ SaveEffect

\* await ai.models.generateImages(...) rejects, or the response holds no image
GenerateImagesFails(t) ==
    /\ At(t, "generateImages")
    /\ Catch(t, "generateImages")
    /\ lastOp' = OpT("turnFails", TRUE, t)
    /\ UNCHANGED TurnFrame
    /\ UNCHANGED summaryVars
    /\ UNCHANGED userInput
    /\ SaveEffect

\* await fileToBase64(localImageFile) resolves: generateContent is issued
FileToBase64Resolves(t) ==
    /\ At(t, "fileToBase64")
    /\ turns' = [turns EXCEPT ![t].pc = "generateContent", ![t].remote = @ + 1]
    /\ lastOp' = OpT("fileRead", TRUE, t)
    /\ UNCHANGED << conversations, isLoading >>
    /\ UNCHANGED TurnFrame
    /\ UNCHANGED summaryVars
    /\ UNCHANGED userInput
    /\ SaveEffect

\* await fileToBase64(localImageFile) rejects
FileToBase64Rejects(t) ==
    /\ At(t, "fileToBase64")
    /\ Catch(t, "fileToBase64")
    /\ lastOp' = OpT("turnFails", TRUE, t)
    /\ UNCHANGED TurnFrame
    /\ UNCHANGED summaryVars
    /\ UNCHANGED userInput
    /\ SaveEffect

\* The texts and image of a generateContent response, as the model message made of
\* them: responseText || (responseImageUrl ? '' : 'Image processed successfully.')
ImageResponses ==
    { Message(MODEL, <<"t">>, NULL),
      Message(MODEL, <<>>, "edited"),
      Message(MODEL, <<"t">>, "edited"),
      Message(MODEL, <<"Image processed successfully.">>, NULL),
      Message(MODEL, <<"An unexpected error occurred.">>, NULL) }

\* await ai.models.generateContent(...) resolves
GenerateContentReturns(t, modelMessage) ==
    LET updated == PopPush(conversations, turns[t].chat, modelMessage)
    IN  /\ At(t, "generateContent")
        /\ conversations' = updated
        /\ isLoading' = FALSE
        /\ turns' = [turns EXCEPT ![t].pc = "done", ![t].outcome = "finalized",
                                  ![t].late = Late(t, updated),
                                  ![t].spoken = @ \o AutoSpeak(turns[t].tts,
                                                               modelMessage.content)]
        /\ lastOp' = OpT("imageProcessed", TRUE, t)
        /\ UNCHANGED TurnFrame
        /\ UNCHANGED summaryVars
        /\ UNCHANGED userInput
        /\ SaveEffect

\* await ai.models.generateContent(...) rejects
GenerateContentFails(t) ==
    /\ At(t, "generateContent")
    /\ Catch(t, "generateContent")
    /\ lastOp' = OpT("turnFails", TRUE, t)
    /\ UNCHANGED TurnFrame
    /\ UNCHANGED summaryVars
    /\ UNCHANGED userInput
    /\ SaveEffect


\* ------------------------------------------------------- speech recognition
Transcripts == { <<"h">> }

SPEECH_ERROR == <<"No speech was detected. Please try again.">>
FILE_TYPE_ERROR == <<"Invalid file type. Please select a valid image file (e.g., JPEG, PNG, WEBP).">>
FILE_SIZE_ERROR == <<"File is too large. Please select an image under 10MB.">>
FILE_READ_ERROR == <<"Could not read the selected image. It might be corrupted. Please try another one.">>

\* handleVoiceInput: recognitionRef.current.start() when neither recording nor loading
HandleVoiceInput ==
    /\ booted
    /\ session = {}
    /\ ~isLoading
    /\ session' = {recog}
    /\ lastOp' = Op("handleVoiceInput")
    /\ UNCHANGED << conversations, currentChatId, isLoading, isStopped, imageFile,
                    imagePreview, apiKey, titleTasks, isTtsEnabled, now, booted, turns, recog, timers,
                    readers, errs >>
    /\ UNCHANGED summaryVars
    /\ UNCHANGED userInput
    /\ SaveEffect

\* recognition.onresult, then onend: the submit is deferred by a timer
SpeechResult(transcript) ==
    /\ session # {}
    /\ timers' = timers \cup { [cl |-> cl, transcript |-> transcript] : cl \in session }
    /\ session' = {}
    /\ lastOp' = Op("speechResult")
    /\ UNCHANGED << conversations, currentChatId, isLoading, isStopped, imageFile,
                    imagePreview, apiKey, titleTasks, isTtsEnabled, now, booted, turns, recog, readers, errs >>
    /\ UNCHANGED summaryVars
    /\ userInput' = transcript
    /\ SaveEffect

\* recognition.onerror, then onend
SpeechError ==
    /\ session # {}
    /\ errs < MaxErrors
    /\ errs' = errs + 1
    /\ \E cl \in session :
          conversations' =
              AddMessageToCurrentChat(conversations, cl.currentChatId,
                                      Message(ERROR, SPEECH_ERROR, NULL))
    /\ session' = {}
    /\ lastOp' = Op("speechError")
    /\ UNCHANGED << currentChatId, isLoading, isStopped, imageFile, imagePreview,
                    apiKey, titleTasks, isTtsEnabled, now, booted, turns, recog, timers, readers >>
    /\ UNCHANGED summaryVars
    /\ UNCHANGED userInput
    /\ SaveEffect

\* recognition.onend with neither a result nor an error
SpeechEnd ==
    /\ session # {}
    /\ session' = {}
    /\ lastOp' = Op("speechEnd")
    /\ UNCHANGED << conversations, currentChatId, isLoading, isStopped, imageFile,
                    imagePreview, apiKey, titleTasks, isTtsEnabled, now, booted, turns, recog, timers,
                    readers, errs >>
    /\ UNCHANGED summaryVars
    /\ UNCHANGED userInput
    /\ SaveEffect

\* the timer of onresult fires: submitMessage of the render the handlers close over
SpeechSubmit(tm) ==
    /\ tm \in timers
    /\ timers' = timers \ {tm}
    /\ IF Accepts(tm.transcript, tm.cl)
       THEN /\ SubmitMessage(tm.transcript, tm.cl)
            /\ lastOp' = OpT("speechSubmit", TRUE, Len(turns) + 1)
       ELSE /\ lastOp' = OpF("speechSubmit", FALSE)
            /\ UNCHANGED << conversations, isLoading, isStopped, imageFile,
                            imagePreview, turns, titleTasks, userInput >>
    /\ UNCHANGED << currentChatId, apiKey, isTtsEnabled, now, booted, recog, session,
                    readers, errs >>
    /\ UNCHANGED summaryVars
    /\ SaveEffect

\* --------------------------------------------------------------- attachment
\* file.type.startsWith('image/')
IsImageType(file) == StartsWith(file.type, <<"image/">>)

\* the size test that also refuses a file of exactly the limit
TooLargeFromLimit(file) == file.size >= MAX_SIZE_MB * 1024 * 1024

\* file.size > MAX_SIZE_MB * 1024 * 1024
TooLarge(file) == file.size > MAX_SIZE_MB * 1024 * 1024

\* The files handleFileChange stages.
ValidFiles == { f \in Files : IsImageType(f) /\ ~TooLarge(f) }

\* handleFileChange: the attach control is disabled while isLoading
HandleFileChange(file) ==
    /\ booted
    /\ ~isLoading
    /\ IF IsImageType(file) /\ ~TooLarge(file)
       THEN /\ imageFile' = file.name
            /\ readers' = readers \cup { [file |-> file.name, chat |-> currentChatId] }
            /\ UNCHANGED << conversations, errs >>
       ELSE /\ errs < MaxErrors
            /\ errs' = errs + 1
            /\ conversations' =
                   AddMessageToCurrentChat(
                       conversations, currentChatId,
                       Message(ERROR,
                               IF ~IsImageType(file) THEN FILE_TYPE_ERROR ELSE FILE_SIZE_ERROR,
                               NULL))
            /\ UNCHANGED << imageFile, readers >>
    /\ lastOp' = OpA("handleFileChange", IsImageType(file) /\ ~TooLarge(file),
                     0, NoChat, currentChatId, file)
    /\ UNCHANGED << currentChatId, isLoading, isStopped, imagePreview, apiKey, titleTasks, isTtsEnabled, now,
                    booted, turns, recog, session, timers >>
    /\ UNCHANGED summaryVars
    /\ UNCHANGED userInput
    /\ SaveEffect

\* reader.onloadend after a successful read
ReaderLoadEnd(r) ==
    /\ r \in readers
    /\ readers' = readers \ {r}
    /\ imagePreview' = r.file
    /\ lastOp' = Op("readerLoadEnd")
    /\ UNCHANGED << conversations, currentChatId, isLoading, isStopped, imageFile,
                    apiKey, titleTasks, isTtsEnabled, now, booted, turns, recog, session, timers, errs >>
    /\ UNCHANGED summaryVars
    /\ UNCHANGED userInput
    /\ SaveEffect

\* reader.onerror, then reader.onloadend with a null result
ReaderError(r) ==
    /\ r \in readers
    /\ errs < MaxErrors
    /\ errs' = errs + 1
    /\ readers' = readers \ {r}
    /\ conversations' =
           AddMessageToCurrentChat(conversations, r.chat,
                                   Message(ERROR, FILE_READ_ERROR, NULL))
    /\ imageFile' = NULL
    /\ imagePreview' = NULL
    /\ lastOp' = Op("readerError")
    /\ UNCHANGED << currentChatId, isLoading, isStopped, apiKey, titleTasks, isTtsEnabled, now, booted, turns,
                    recog, session, timers >>
    /\ UNCHANGED summaryVars
    /\ UNCHANGED userInput
    /\ SaveEffect

\* handleRemoveImage: the control is rendered with the preview
HandleRemoveImage ==
    /\ imagePreview # NULL
    /\ imageFile' = NULL
    /\ imagePreview' = NULL
    /\ lastOp' = Op("handleRemoveImage")
    /\ UNCHANGED << conversations, currentChatId, isLoading, isStopped, apiKey, titleTasks, isTtsEnabled, now,
                    booted, turns, recog, session, timers, readers, errs >>
    /\ UNCHANGED summaryVars
    /\ UNCHANGED userInput
    /\ SaveEffect

\* ------------------------------------------------------------ specification
Ids == 1..MaxClock

TurnIds == 1..MaxTurns

\* The operations of the conversation store.
NextStore ==
    \/ Tick
    \/ StartNewChat
    \/ \E id \in Ids : SwitchChat(id)
    \/ \E id \in Ids : DeleteChat(id)

\* The continuations of the plain-text turns in flight.
NextText(chunkTexts) ==
    \/ \E t \in TurnIds : StreamCreated(t)
    \/ \E t \in TurnIds : StreamCreateFails(t)
    \/ \E t \in TurnIds, c \in chunkTexts : ChunkArrives(t, c)
    \/ \E t \in TurnIds : StreamEnds(t)
    \/ \E t \in TurnIds : StreamThrows(t)

\* The continuations of the image turns in flight.
NextImage ==
    \/ \E t \in TurnIds : GenerateImagesReturns(t)
    \/ \E t \in TurnIds : GenerateImagesFails(t)
    \/ \E t \in TurnIds : FileToBase64Resolves(t)
    \/ \E t \in TurnIds : FileToBase64Rejects(t)
    \/ \E t \in TurnIds, m \in ImageResponses : GenerateContentReturns(t, m)
    \/ \E t \in TurnIds : GenerateContentFails(t)

\* The title side task.
NextTitle == \E id \in Ids, response \in TitleResponses : TitleResolves(id, response)

\* Speech input.
NextSpeech ==
    \/ HandleVoiceInput
    \/ \E x \in Transcripts : SpeechResult(x)
    \/ SpeechError
    \/ SpeechEnd
    \/ \E tm \in timers : SpeechSubmit(tm)

\* The attachment staging slot.
NextAttach ==
    \/ \E f \in Files : HandleFileChange(f)
    \/ \E r \in readers : ReaderLoadEnd(r)
    \/ \E r \in readers : ReaderError(r)
    \/ HandleRemoveImage

\* Spec: the turn orchestrator and the stream assembler during the first turn of
\* the conversation of a first launch, on its three paths, with speech input and
\* attachments.
Next ==
    \/ Bootstrap
    \/ turns = << >> /\ \E m \in Inputs : Submit(m)
    \/ turns = << >> /\ \E tm \in timers : SpeechSubmit(tm)
    \/ HandleStop
    \/ NextTitle
    \/ NextText(ChunkTexts)
    \/ NextImage
    \/ HandleVoiceInput
    \/ \E x \in Transcripts : SpeechResult(x)
    \/ SpeechError
    \/ SpeechEnd
    \/ NextAttach

Spec == Init /\ [][Next]_vars

\* SpecTurns: up to MaxTurns plain-text turns on that conversation, typed or
\* spoken.
PlainInputs == { <<"h">> }

PlainChunks == { <<"a">> }

NextTurns ==
    \/ Bootstrap
    \/ \E m \in PlainInputs : Submit(m)
    \/ HandleStop
    \/ NextTitle
    \/ NextText(PlainChunks)
    \/ NextSpeech

SpecTurns == Init /\ [][NextTurns]_vars

\* SpecStore: the conversation store under new chat, switch and delete, with
\* one plain-text turn filling a conversation and in flight during them.
NextStoreTurns ==
    \/ Bootstrap
    \/ NextStore
    \/ turns = << >> /\ \E m \in PlainInputs : Submit(m)
    \/ HandleStop
    \/ NextTitle
    \/ NextText(PlainChunks)

SpecStore == Init /\ [][NextStoreTurns]_vars

\* toggleTts: the control is enabled at all times
ToggleTts ==
    /\ booted
    /\ isTtsEnabled' = ~isTtsEnabled
    /\ lastOp' = Op("toggleTts")
    /\ UNCHANGED << conversations, currentChatId, isLoading, isStopped, imageFile,
                    imagePreview, apiKey, titleTasks, now, booted, turns, recog, session,
                    timers, readers, errs >>
    /\ UNCHANGED summaryVars
    /\ UNCHANGED userInput
    /\ SaveEffect

\* SpecSpeak: speech output of the responses of plain-text turns, with the
\* speech output toggle.
NextSpeak ==
    \/ Bootstrap
    \/ ToggleTts
    \/ \E m \in PlainInputs : Submit(m)
    \/ HandleStop
    \/ NextTitle
    \/ NextText(PlainChunks)

SpecSpeak == Init /\ [][NextSpeak]_vars

\* SpecBoot: a launch over what an earlier session left in localStorage, then the
\* conversation store under new chat, switch and delete.
StoredConversations ==
    LET empty == NewConversation(1)
        used == [id |-> 2, title |-> <<"Topic">>,
                 messages |-> << Message(USER, <<"h">>, NULL), Message(MODEL, <<"a">>, NULL) >>]
        recent == NewConversation(3)
    IN  { << >>,
          [k \in {1} |-> empty],
          [k \in {2} |-> used],
          [k \in {1, 2} |-> IF k = 1 THEN empty ELSE used],
          [k \in {2, 3} |-> IF k = 2 THEN used ELSE recent] }

Storages ==
    { Stored(state, << >>, id, tts) :
          state \in {"none", "unreadable"}, id \in {NoChat} \cup Ids, tts \in BOOLEAN }
        \cup { Stored("saved", convs, id, tts) :
                   convs \in StoredConversations, id \in {NoChat} \cup Ids, tts \in BOOLEAN }

InitBoot ==
    /\ conversations = << >>
    /\ currentChatId = NoChat
    /\ isLoading = FALSE
    /\ isStopped = FALSE
    /\ imageFile = NULL
    /\ imagePreview = NULL
    /\ apiKey \in BOOLEAN
    /\ now = MaxClock
    /\ booted = FALSE
    /\ turns = << >>
    /\ recog = Closure(FALSE, NULL, NULL, NoChat, FALSE)
    /\ session = {}
    /\ timers = {}
    /\ readers = {}
    /\ errs = 0
    /\ titleTasks = {}
    /\ storage \in Storages
    /\ isTtsEnabled = FALSE
    /\ isSummaryModalOpen = FALSE
    /\ summaryContent = <<>>
    /\ isSummarizing = FALSE
    /\ summaryCalls = {}
    /\ userInput = <<>>
    /\ lastOp = Op("init")

NextBoot ==
    \/ Bootstrap
    \/ StartNewChat
    \/ \E id \in Ids : SwitchChat(id)
    \/ \E id \in Ids : DeleteChat(id)

SpecBoot == InitBoot /\ [][NextBoot]_vars


\* ------------------------------------------------------------ summarization
SUMMARY_ERROR == "An error occurred while generating the summary: "

SummaryTexts == { <<>>, <<"s">> }

\* The lines of conversationHistory: 'User: ' or 'Assistant: ' and the content
\* of every message that is not error-role.
ConversationHistory(messages) ==
    LET kept == SelectSeq(messages, LAMBDA m : m.role # ERROR)
    IN  [i \in 1..Len(kept) |->
            << IF kept[i].role = USER THEN "User: " ELSE "Assistant: " >> \o kept[i].content]

\* handleSummarize without its test of the number of messages
HandleSummarizeAnyLength ==
    /\ booted
    /\ ~isLoading
    /\ ~isSummarizing
    /\ IF currentChatId = NoChat \/ currentChatId \notin DOMAIN conversations
       THEN /\ lastOp' = OpF("handleSummarize", FALSE)
            /\ UNCHANGED summaryVars
       ELSE /\ isSummaryModalOpen' = TRUE
            /\ IF ~apiKey
               THEN /\ summaryContent' = <<SUMMARY_ERROR, "API_KEY environment variable not set.">>
                    /\ isSummarizing' = FALSE
                    /\ summaryCalls' = summaryCalls
               ELSE /\ summaryContent' = <<>>
                    /\ isSummarizing' = TRUE
                    /\ summaryCalls' = summaryCalls \cup
                           { [history |-> ConversationHistory(conversations[currentChatId].messages)] }
            /\ lastOp' = OpF("handleSummarize", TRUE)
    /\ UNCHANGED << conversations, currentChatId, isLoading, isStopped, imageFile,
                    imagePreview, apiKey, titleTasks, isTtsEnabled, now, booted, turns,
                    recog, session, timers, readers, errs >>
    /\ UNCHANGED userInput
    /\ SaveEffect

\* handleSummarize up to its await (or to its end, when it throws before it);
\* its control is disabled while isLoading or isSummarizing
HandleSummarize ==
    /\ booted
    /\ ~isLoading
    /\ ~isSummarizing
    /\ IF \/ currentChatId = NoChat
          \/ currentChatId \notin DOMAIN conversations
          \/ Len(conversations[currentChatId].messages) < 4
       THEN /\ lastOp' = OpF("handleSummarize", FALSE)
            /\ UNCHANGED summaryVars
       ELSE /\ isSummaryModalOpen' = TRUE
            /\ IF ~apiKey
               THEN /\ summaryContent' = <<SUMMARY_ERROR, "API_KEY environment variable not set.">>
                    /\ isSummarizing' = FALSE
                    /\ summaryCalls' = summaryCalls
               ELSE /\ summaryContent' = <<>>
                    /\ isSummarizing' = TRUE
                    /\ summaryCalls' = summaryCalls \cup
                           { [history |-> ConversationHistory(conversations[currentChatId].messages)] }
            /\ lastOp' = OpF("handleSummarize", TRUE)
    /\ UNCHANGED << conversations, currentChatId, isLoading, isStopped, imageFile,
                    imagePreview, apiKey, titleTasks, isTtsEnabled, now, booted, turns,
                    recog, session, timers, readers, errs >>
    /\ UNCHANGED userInput
    /\ SaveEffect

\* await ai.models.generateContent(...) of handleSummarize resolves
SummaryReturns(call, text) ==
    /\ call \in summaryCalls
    /\ summaryCalls' = summaryCalls \ {call}
    /\ summaryContent' = text
    /\ isSummarizing' = FALSE
    /\ lastOp' = OpF("summaryEnds", TRUE)
    /\ UNCHANGED << conversations, currentChatId, isLoading, isStopped, imageFile,
                    imagePreview, apiKey, titleTasks, isTtsEnabled, now, booted, turns,
                    recog, session, timers, readers, errs, isSummaryModalOpen >>
    /\ UNCHANGED userInput
    /\ SaveEffect

\* await ai.models.generateContent(...) of handleSummarize rejects
SummaryFails(call) ==
    /\ call \in summaryCalls
    /\ summaryCalls' = summaryCalls \ {call}
    /\ summaryContent' = <<SUMMARY_ERROR, "generateContent">>
    /\ isSummarizing' = FALSE
    /\ lastOp' = OpF("summaryEnds", FALSE)
    /\ UNCHANGED << conversations, currentChatId, isLoading, isStopped, imageFile,
                    imagePreview, apiKey, titleTasks, isTtsEnabled, now, booted, turns,
                    recog, session, timers, readers, errs, isSummaryModalOpen >>
    /\ UNCHANGED userInput
    /\ SaveEffect

\* the close controls of the summary surface
CloseSummary ==
    /\ isSummaryModalOpen
    /\ isSummaryModalOpen' = FALSE
    /\ lastOp' = Op("closeSummary")
    /\ UNCHANGED << conversations, currentChatId, isLoading, isStopped, imageFile,
                    imagePreview, apiKey, titleTasks, isTtsEnabled, now, booted, turns,
                    recog, session, timers, readers, errs, summaryContent, isSummarizing,
                    summaryCalls >>
    /\ UNCHANGED userInput
    /\ SaveEffect

\* SpecSummary: summarization of a conversation filled by plain-text turns, with
\* turns submitted and chats switched while a summary is being generated.
NextSummary ==
    \/ Bootstrap
    \/ StartNewChat
    \/ \E id \in Ids : SwitchChat(id)
    \/ \E m \in PlainInputs : Submit(m)
    \/ NextText(PlainChunks)
    \/ HandleSummarize
    \/ \E call \in summaryCalls, text \in SummaryTexts : SummaryReturns(call, text)
    \/ \E call \in summaryCalls : SummaryFails(call)
    \/ CloseSummary

SpecSummary == Init /\ [][NextSummary]_vars

\* SpecSwitch: one plain-text turn, typed or dictated in one recording, while
\* the user starts and switches chats before and during it.
NextSwitch ==
    \/ Bootstrap
    \/ Tick
    \/ StartNewChat
    \/ \E id \in Ids : SwitchChat(id)
    \/ turns = << >> /\ \E m \in PlainInputs : Submit(m)
    \/ turns = << >> /\ \E tm \in timers : SpeechSubmit(tm)
    \/ turns = << >> /\ timers = {} /\ HandleVoiceInput
    \/ \E x \in Transcripts : SpeechResult(x)
    \/ SpeechEnd
    \/ NextTitle
    \/ NextText(PlainChunks)

SpecSwitch == Init /\ [][NextSwitch]_vars

\* The contents of the turn of SpecPersist and SpecLive: plain text, and an
\* image-generation directive.
LiveInputs == { <<"h">>, GENERATE_DIRECTIVE \o <<"c">> }

\* SpecAttach: the attachment staging slot while the user starts and switches
\* chats, with one file read pending at a time.
NextAttachStore ==
    \/ Bootstrap
    \/ Tick
    \/ StartNewChat
    \/ \E id \in Ids : SwitchChat(id)
    \/ readers = {} /\ \E f \in Files : HandleFileChange(f)
    \/ \E r \in readers : ReaderLoadEnd(r)
    \/ \E r \in readers : ReaderError(r)
    \/ HandleRemoveImage

SpecAttach == Init /\ [][NextAttachStore]_vars

\* SpecPersist: a launch over what an earlier session left in localStorage, then
\* new chat, switch and delete, with one turn that streams text or generates an
\* image.
NextPersist ==
    \/ NextBoot
    \/ turns = << >> /\ \E m \in LiveInputs : Submit(m)
    \/ NextTitle
    \/ NextText(PlainChunks)
    \/ \E t \in TurnIds : GenerateImagesReturns(t)
    \/ \E t \in TurnIds : GenerateImagesFails(t)

SpecPersist == InitBoot /\ [][NextPersist]_vars

\* SpecLive: a launch over two conversations left in localStorage, then one
\* turn on any of the three paths while the user starts, switches and deletes
\* chats, where every pending await of the turn is eventually resumed: each
\* remote call returns or throws, each file read ends, and the stream, which
\* delivers at most MaxChunks chunks, ends.
InitLive ==
    /\ InitBoot
    /\ storage.state = "saved"
    /\ DOMAIN storage.conversations = {2, 3}
    /\ storage.currentId = 2
    /\ ~storage.tts

\* The generateContent responses of SpecLive: a text, and an image without text.
LiveResponses == { Message(MODEL, <<"t">>, NULL), Message(MODEL, <<>>, "edited") }

Continue(t) ==
    \/ StreamCreated(t)
    \/ StreamCreateFails(t)
    \/ \E c \in PlainChunks : ChunkArrives(t, c)
    \/ StreamEnds(t)
    \/ StreamThrows(t)
    \/ GenerateImagesReturns(t)
    \/ GenerateImagesFails(t)
    \/ FileToBase64Resolves(t)
    \/ FileToBase64Rejects(t)
    \/ \E m \in LiveResponses : GenerateContentReturns(t, m)
    \/ GenerateContentFails(t)

NextLive ==
    \/ NextBoot
    \/ turns = << >> /\ \E m \in LiveInputs : Submit(m)
    \/ HandleStop
    \/ readers = {} /\ \E f \in ValidFiles : HandleFileChange(f)
    \/ \E t \in TurnIds : Continue(t)

SpecLive == InitLive /\ [][NextLive]_vars /\ \A t \in TurnIds : WF_vars(Continue(t))


\* the textarea's onChange (the control is disabled while isLoading)
HandleInputChange(text) ==
    /\ booted
    /\ ~isLoading
    /\ userInput' = text
    /\ lastOp' = Op("handleInputChange")
    /\ UNCHANGED << conversations, currentChatId, isLoading, isStopped, imageFile,
                    imagePreview, apiKey, titleTasks, isTtsEnabled, now, booted, turns,
                    recog, session, timers, readers, errs >>
    /\ UNCHANGED summaryVars
    /\ SaveEffect

\* handleSendMessage (form submit, or Enter in the textarea): submitMessage(userInput)
HandleSendMessage ==
    /\ booted
    /\ IF Accepts(userInput, Fresh)
       THEN /\ SubmitMessage(userInput, Fresh)
            /\ lastOp' = OpT("handleSendMessage", TRUE, Len(turns) + 1)
       ELSE /\ lastOp' = OpF("handleSendMessage", FALSE)
            /\ UNCHANGED << conversations, isLoading, isStopped, imageFile,
                            imagePreview, turns, titleTasks, userInput >>
    /\ UNCHANGED << currentChatId, apiKey, isTtsEnabled, now, booted, recog, session,
                    timers, readers, errs >>
    /\ UNCHANGED summaryVars
    /\ SaveEffect

\* The drafts typed into the input: empty, blank, a word.
DraftTexts == { <<>>, <<" ">>, <<"h">> }

\* SpecDraft: the input draft and the staging slot around submits: typing,
\* sending the draft, a suggestion, attaching and removing an image, stop, and
\* a turn, a second turn after a stopped one, and the rejected submits around
\* them: streamed on the plain-text path, ended by a failed file read on the
\* image-understanding path.
NextDraft ==
    \/ Bootstrap
    \/ \E text \in DraftTexts : HandleInputChange(text)
    \/ /\ \/ turns = << >>
          \/ Len(turns) = 1 /\ turns[1].stopReq
          \/ ~Accepts(userInput, Fresh)
       /\ HandleSendMessage
    \/ turns = << >> /\ \E m \in PlainInputs : Submit(m)
    \/ HandleStop
    \/ readers = {} /\ \E f \in ValidFiles : HandleFileChange(f)
    \/ \E r \in readers : ReaderLoadEnd(r)
    \/ HandleRemoveImage
    \/ NextText(PlainChunks)
    \/ \E t \in TurnIds : FileToBase64Rejects(t)

SpecDraft == Init /\ [][NextDraft]_vars

\* The page is closed or reloaded: the component is mounted again with the
\* initial values of its state and refs, the calls in flight are abandoned with
\* the page, and only localStorage is kept.
Reload ==
    /\ booted
    /\ booted' = FALSE
    /\ conversations' = << >>
    /\ currentChatId' = NoChat
    /\ isLoading' = FALSE
    /\ isStopped' = FALSE
    /\ imageFile' = NULL
    /\ imagePreview' = NULL
    /\ isTtsEnabled' = FALSE
    /\ isSummaryModalOpen' = FALSE
    /\ summaryContent' = <<>>
    /\ isSummarizing' = FALSE
    /\ summaryCalls' = {}
    /\ userInput' = <<>>
    /\ recog' = Closure(FALSE, NULL, NULL, NoChat, FALSE)
    /\ session' = {}
    /\ timers' = {}
    /\ readers' = {}
    /\ titleTasks' = {}
    /\ turns' = [t \in 1..Len(turns) |->
                    IF InFlight(t)
                    THEN [turns[t] EXCEPT !.pc = "done", !.outcome = "unloaded"]
                    ELSE turns[t]]
    /\ lastOp' = Op("reload")
    /\ UNCHANGED << apiKey, now, errs, storage >>

\* SpecReload: a first launch, turns on the text and the image-generation path,
\* and the page reloaded at any moment, also while a turn is in flight.
NextReload ==
    \/ Bootstrap
    \/ \E m \in LiveInputs : Submit(m)
    \/ HandleStop
    \/ NextText(PlainChunks)
    \/ \E t \in TurnIds : GenerateImagesReturns(t)
    \/ \E t \in TurnIds : GenerateImagesFails(t)
    \/ Reload

SpecReload == Init /\ [][NextReload]_vars


\* SpecGenerate: turns whose content holds the '/generate ' directive, with
\* leading and trailing blanks and with nothing after the directive.
GenerateInputs ==
    { GENERATE_DIRECTIVE \o <<"c">>,
      <<" ">> \o GENERATE_DIRECTIVE \o <<"c">>,
      <<" ", " ">> \o GENERATE_DIRECTIVE \o <<"c">>,
      GENERATE_DIRECTIVE \o <<" ", "c", " ">>,
      GENERATE_DIRECTIVE,
      GENERATE_DIRECTIVE \o <<" ">> }

NextGenerate ==
    \/ Bootstrap
    \/ \E m \in GenerateInputs : Submit(m)
    \/ HandleStop
    \/ NextText(PlainChunks)
    \/ \E t \in TurnIds : GenerateImagesReturns(t)
    \/ \E t \in TurnIds : GenerateImagesFails(t)

SpecGenerate == Init /\ [][NextGenerate]_vars


\* ---------------------------------------------------------------- properties
Turns == 1..Len(turns)

\* The model message of turn t is the element pushed as its placeholder.
HasModelMessage(t) ==
    /\ turns[t].chat \in DOMAIN conversations
    /\ turns[t].idx > 0
    /\ turns[t].idx <= Len(conversations[turns[t].chat].messages)

ModelMessage(t) == conversations[turns[t].chat].messages[turns[t].idx]

Count(s, token) == Cardinality({ i \in 1..Len(s) : s[i] = token })

StopToken == STOP_MARKER[1]

\* C1: a streamed plain-text turn that ended without failure or cancellation
\* leaves, as its model message's content, the concatenation of its chunks in
\* arrival order, with neither the sentinel nor an added cursor glyph.
C1_FinalizedIsConcatenation ==
    \A t \in Turns :
        (turns[t].path = "text" /\ turns[t].outcome = "finalized" /\ HasModelMessage(t))
            => ModelMessage(t).content = turns[t].fullResponse

\* C2: while a streamed turn is in progress with at least one chunk applied, its
\* model message's content is the chunks applied so far followed by exactly one
\* cursor glyph.
C2_StreamingHasOneCursor ==
    \A t \in Turns :
        (turns[t].pc = "stream" /\ turns[t].chunks >= 1 /\ HasModelMessage(t))
            => ModelMessage(t).content = turns[t].fullResponse \o <<GLYPH>>

\* C3: when stop is requested while a plain-text turn is streaming, the turn
\* ends with the stop marker appended exactly once to its model message, and
\* isLoading is false.
C3_StopAppendsMarkerOnce ==
    \A t \in Turns :
        (turns[t].stopReq /\ turns[t].stopPc = "stream" /\ turns[t].pc = "done"
         /\ HasModelMessage(t))
            => /\ ModelMessage(t).role = MODEL
               /\ Count(ModelMessage(t).content, StopToken) = 1
               /\ EndsWith(ModelMessage(t).content, StopToken)
               /\ ~isLoading

\* C4: a cancelled streamed turn leaves the chunks applied before the stop
\* request followed by the stop marker: the partial output is kept and the
\* cursor glyph removed.
C4_CancelKeepsPartialOutput ==
    \A t \in Turns :
        (turns[t].path = "text" /\ turns[t].outcome = "cancelled" /\ HasModelMessage(t))
            => ModelMessage(t).content = turns[t].stopFull \o STOP_MARKER

\* C5: once stop has been requested during a turn, no remote output that
\* arrives afterwards is applied to the conversation, on any of the three paths.
C5_NoOutputAfterStop ==
    \A t \in Turns : ~turns[t].late

\* A cursor glyph the assembler added to the model message of a streamed turn
\* and did not remove.
ResidualGlyph(id, i) ==
    \E t \in Turns :
        /\ turns[t].chat = id
        /\ turns[t].idx = i
        /\ turns[t].path = "text"
        /\ conversations[id].messages[i].role = MODEL
        /\ conversations[id].messages[i].content = turns[t].fullResponse \o <<GLYPH>>

\* C6: whenever no turn is in flight (isLoading is false), no message holds the
\* loading sentinel or a cursor glyph left by the assembler.
C6_NoPlaceholderWhenIdle ==
    ~isLoading =>
        \A id \in DOMAIN conversations :
            \A i \in 1..Len(conversations[id].messages) :
                /\ conversations[id].messages[i].content # LOADING_INDICATOR_CONTENT
                /\ ~ResidualGlyph(id, i)

\* The turn that has just failed, if the last operation was a failure.
JustFailed(t) ==
    /\ lastOp.t = t
    /\ \/ lastOp.op = "turnFails"
       \/ lastOp.op \in {"submit", "speechSubmit"} /\ turns[t].outcome = "error"

\* C7: every failure of a turn is caught: the placeholder is replaced by exactly
\* one error-role message, no sentinel remains in the conversation, and
\* isLoading is false.
C7_FailureReplacesPlaceholder ==
    \A t \in Turns :
        (JustFailed(t) /\ turns[t].chat \in DOMAIN conversations) =>
            LET messages == conversations[turns[t].chat].messages
            IN  /\ Len(messages) = turns[t].idx
                /\ messages[turns[t].idx].role = ERROR
                /\ messages[turns[t].idx - 1].role = USER
                /\ \A i \in 1..Len(messages) :
                       messages[i].content # LOADING_INDICATOR_CONTENT
                /\ ~isLoading

\* C8: a submitMessage call made while a turn is active (isLoading true) pushes
\* no message and issues no remote call: no turn starts while isLoading.
C8_OneTurnInFlight ==
    \A t \in Turns : ~turns[t].busy

\* C9: a turn submitted with an attached image never takes the plain-text
\* streaming path.
C9_ImageNeverStreams ==
    \A t \in Turns : turns[t].staged # NULL => turns[t].path # "text"

\* C10: deleting the only conversation leaves exactly one conversation, freshly
\* created ('New Chat', no messages), and it is the active one.
C10_DeleteOnlyLeavesFresh ==
    (lastOp.op = "deleteChat" /\ lastOp.flag) =>
        /\ Cardinality(DOMAIN conversations) = 1
        /\ currentChatId \in DOMAIN conversations
        /\ conversations[currentChatId] = NewConversation(currentChatId)

\* The only conversation, holding the messages of a turn, has been deleted.
C10_Witness ==
    /\ lastOp.op = "deleteChat"
    /\ lastOp.flag
    /\ Len(turns) > 0

\* C11: deleteChat(id) with id other than the active id leaves the active id and
\* every other conversation unchanged; only the entry id is removed.
C11_DeleteOtherKeepsActive ==
    [][ (lastOp'.op = "deleteChat" /\ lastOp'.id # currentChatId) =>
            /\ currentChatId' = currentChatId
            /\ DOMAIN conversations' = DOMAIN conversations \ {lastOp'.id}
            /\ \A k \in DOMAIN conversations' : conversations'[k] = conversations[k]
      ]_vars

\* A conversation other than the active one has been deleted while the active
\* one holds messages and another conversation remains beside it.
C11_Witness ==
    /\ lastOp.op = "deleteChat"
    /\ lastOp.id # lastOp.active
    /\ lastOp.id \notin DOMAIN conversations
    /\ currentChatId = lastOp.active
    /\ Cardinality(DOMAIN conversations) >= 2
    /\ Len(conversations[currentChatId].messages) > 0

\* C12: deleting the active conversation while others remain makes active the
\* remaining conversation with the largest creation timestamp.
C12_DeleteActivePicksMostRecent ==
    [][ (lastOp'.op = "deleteChat" /\ lastOp'.id = currentChatId /\ ~lastOp'.flag) =>
            /\ DOMAIN conversations' = DOMAIN conversations \ {currentChatId}
            /\ currentChatId' \in DOMAIN conversations'
            /\ \A k \in DOMAIN conversations' : k <= currentChatId'
      ]_vars

\* The active conversation, which was not the most recent one, has been deleted
\* and two conversations remain.
C12_Witness ==
    /\ lastOp.op = "deleteChat"
    /\ lastOp.id = lastOp.active
    /\ ~lastOp.flag
    /\ Cardinality(DOMAIN conversations) >= 2
    /\ lastOp.id < currentChatId

\* C13: once the load effect has run, the store holds at least one conversation
\* and the active id names a conversation of the store.
C13_ActiveConversationExists ==
    booted =>
        /\ DOMAIN conversations # {}
        /\ currentChatId \in DOMAIN conversations

\* The conversation of a turn in flight has been deleted, and a switch to an
\* unknown id was then requested.
C13_Witness ==
    /\ lastOp.op = "switchChat"
    /\ ~lastOp.flag
    /\ \E t \in Turns : InFlight(t) /\ turns[t].chat \notin DOMAIN conversations

\* C14: the load effect over no persisted conversations, or unreadable ones,
\* creates exactly one conversation ('New Chat', no messages) and makes it
\* active; over persisted conversations it creates none and makes active the
\* persisted current id when it names a loaded conversation, otherwise the most
\* recently created loaded conversation.
C14_BootstrapLoads ==
    [][ (~booted /\ booted') =>
            IF storage.state = "saved" /\ DOMAIN storage.conversations # {}
            THEN /\ conversations' = storage.conversations
                 /\ currentChatId' =
                        IF storage.currentId \in DOMAIN storage.conversations
                        THEN storage.currentId
                        ELSE Max(DOMAIN storage.conversations)
            ELSE /\ Cardinality(DOMAIN conversations') = 1
                 /\ currentChatId' \in DOMAIN conversations'
                 /\ conversations'[currentChatId'] = NewConversation(currentChatId')
      ]_vars

\* The load effect has run over two persisted conversations and a persisted
\* current id that names the older of them.
C14_Witness ==
    /\ lastOp.op = "bootstrap"
    /\ lastOp.flag
    /\ lastOp.id = currentChatId
    /\ \E k \in DOMAIN conversations : k > currentChatId

\* The turn whose submitMessage run or continuation was the last operation and
\* ended it.
JustEnded(t) == lastOp.t = t /\ turns[t].pc = "done"

\* The turn that submitMessage has just started and left in flight.
JustStarted(t) ==
    /\ lastOp.t = t
    /\ lastOp.op \in {"submit", "speechSubmit"}
    /\ InFlight(t)

\* C15: a turn appends the user message followed by one model-role placeholder,
\* and when it ends the conversation has grown by exactly two messages: the user
\* message followed by one model-role or error-role message.
C15_TurnGrowsByTwo ==
    \A t \in Turns :
        turns[t].chat \in DOMAIN conversations =>
            LET messages == conversations[turns[t].chat].messages
                idx == turns[t].idx
            IN  /\ JustStarted(t) =>
                    /\ Len(messages) = idx
                    /\ messages[idx - 1].role = USER
                    /\ messages[idx - 1].content = turns[t].content
                    /\ messages[idx] = Message(MODEL, LOADING_INDICATOR_CONTENT, NULL)
                /\ JustEnded(t) =>
                    /\ Len(messages) = idx
                    /\ messages[idx - 1].role = USER
                    /\ messages[idx - 1].content = turns[t].content
                    /\ messages[idx].role \in {MODEL, ERROR}

\* The model message of a turn in flight, as a position of its conversation.
IsInFlightPlaceholder(id, i) ==
    \E t \in Turns : InFlight(t) /\ turns[t].chat = id /\ turns[t].idx = i

\* C16: in every step, every message of a conversation other than the model
\* message of a turn in flight keeps its position, role and content: the list
\* is append-only except for the in-flight turn's placeholder.
C16_AppendOnlyExceptPlaceholder ==
    [][ \A id \in DOMAIN conversations \cap DOMAIN conversations' :
            LET old == conversations[id].messages
                new == conversations'[id].messages
            IN  \A i \in 1..Len(old) :
                    ~IsInFlightPlaceholder(id, i) =>
                        /\ i <= Len(new)
                        /\ new[i].role = old[i].role
                        /\ new[i].content = old[i].content
      ]_vars

\* The state of the assembler for the model message of streamed turn t, read
\* from the message.
Awaiting(t) == ModelMessage(t).role = MODEL /\ ModelMessage(t).content = LOADING_INDICATOR_CONTENT

Streaming(t) == ModelMessage(t).role = MODEL /\ EndsWith(ModelMessage(t).content, GLYPH)

\* C17: the model message of a streamed turn is Awaiting-First-Chunk (sentinel)
\* until the first chunk, then Streaming (ends with the glyph); Finalized and
\* Cancelled are entered from Streaming and are terminal.
C17_AssemblerStates ==
    [][ \A t \in Turns :
            (turns[t].path = "text" /\ HasModelMessage(t)
             /\ turns[t].chat \in DOMAIN conversations'
             /\ turns[t].idx <= Len(conversations'[turns[t].chat].messages)) =>
                LET after == conversations'[turns[t].chat].messages[turns[t].idx]
                IN  /\ (InFlight(t) /\ turns[t].chunks = 0) => Awaiting(t)
                    /\ (InFlight(t) /\ turns[t].chunks > 0) => Streaming(t)
                    /\ (turns[t].outcome = "none"
                        /\ turns'[t].outcome \in {"finalized", "cancelled"}) => Streaming(t)
                    /\ turns[t].outcome \in {"finalized", "cancelled"} =>
                           after = ModelMessage(t)
      ]_vars

\* C18: while a streamed turn is active its model message is the last message
\* of the conversation, at the index of the placeholder push, and holds the
\* sentinel until the first chunk is applied.
C18_PlaceholderStaysLast ==
    \A t \in Turns :
        (turns[t].path = "text" /\ InFlight(t) /\ turns[t].chat \in DOMAIN conversations) =>
            LET messages == conversations[turns[t].chat].messages
            IN  /\ Len(messages) = turns[t].idx
                /\ messages[turns[t].idx].role = MODEL
                /\ turns[t].chunks = 0 =>
                       messages[turns[t].idx].content = LOADING_INDICATOR_CONTENT

\* C19: when a streamed turn has just ended, playback of the full response has
\* been triggered exactly once if the turn finalized and speech output is
\* enabled, and no playback has been triggered if the turn was cancelled or
\* failed or speech output is disabled.
C19_PlaybackOnceWhenEnabled ==
    \A t \in Turns :
        (turns[t].path = "text" /\ JustEnded(t)) =>
            /\ (turns[t].outcome = "finalized" /\ isTtsEnabled
                /\ turns[t].fullResponse # <<>>) =>
                   turns[t].spoken = << turns[t].fullResponse >>
            /\ (turns[t].outcome # "finalized" \/ ~isTtsEnabled) => turns[t].spoken = <<>>

\* C20: title generation is started only by a turn submitted while its
\* conversation has no messages, and by at most one turn of a conversation.
C20_TitleOnlyOnFirstTurn ==
    /\ \A t \in Turns : turns[t].titled => turns[t].idx = 2
    /\ \A t1, t2 \in Turns :
           (turns[t1].titled /\ turns[t2].titled /\ turns[t1].chat = turns[t2].chat)
               => t1 = t2

\* A second turn was submitted in the conversation whose first turn started the
\* title generation.
C20_Witness ==
    /\ Len(turns) = 2
    /\ turns[1].titled
    /\ turns[2].chat = turns[1].chat
    /\ turns[2].idx = 4

\* C21: the first user turn submitted in a conversation (no user message before
\* it) starts title generation, whatever its content and whether or not
\* error-role messages were appended to the conversation before it.
C21_FirstTurnStartsTitle ==
    \A t \in Turns : turns[t].firstUser => turns[t].titled

C25_FileValidation ==
    [][ (lastOp'.op = "handleFileChange" /\ now' = now) =>
            LET file == lastOp'.file
                valid == /\ Len(file.type) > 0
                         /\ file.type[1] = "image/"
                         /\ file.size <= 10485760
                old == conversations[currentChatId].messages
                new == conversations'[currentChatId].messages
            IN  /\ DOMAIN conversations' = DOMAIN conversations
                /\ \A k \in DOMAIN conversations \ {currentChatId} :
                       conversations'[k] = conversations[k]
                /\ IF valid
                   THEN /\ imageFile' = file.name
                        /\ new = old
                   ELSE /\ imageFile' = imageFile
                        /\ imagePreview' = imagePreview
                        /\ Len(new) = Len(old) + 1
                        /\ SubSeq(new, 1, Len(old)) = old
                        /\ new[Len(new)].role = ERROR
      ]_vars

\* An image file of exactly 10 MiB has been staged.
C25_Witness ==
    /\ lastOp.op = "handleFileChange"
    /\ lastOp.flag
    /\ lastOp.file.size = 10485760
    /\ imageFile = lastOp.file.name

\* C26: no step of summarization changes the conversation store, the active id
\* or isLoading; handleSummarize changes nothing when the active conversation
\* has fewer than 4 messages; when summarization fails, missing credentials
\* included, the summary surface holds an error text; and isSummarizing is
\* false once it has ended.
C26_SummarizeLeavesStore ==
    /\ [][ lastOp'.op \in {"handleSummarize", "summaryEnds"} =>
               /\ conversations' = conversations
               /\ currentChatId' = currentChatId
               /\ isLoading' = isLoading
         ]_vars
    /\ [][ (lastOp'.op = "handleSummarize"
            /\ Len(conversations[currentChatId].messages) < 4) =>
               /\ isSummaryModalOpen' = isSummaryModalOpen
               /\ summaryContent' = summaryContent
               /\ isSummarizing' = isSummarizing
               /\ summaryCalls' = summaryCalls
               /\ turns' = turns
         ]_vars
    /\ [][ (summaryCalls' # summaryCalls /\ summaryCalls' = {}) => ~isSummarizing' ]_vars
    /\ []((lastOp.op = "summaryEnds" /\ ~lastOp.flag) =>
              /\ Len(summaryContent) > 0
              /\ summaryContent[1] = SUMMARY_ERROR
              /\ ~isSummarizing)
    /\ []((lastOp.op = "handleSummarize" /\ lastOp.flag /\ ~apiKey) =>
              /\ Len(summaryContent) > 0
              /\ summaryContent[1] = SUMMARY_ERROR
              /\ ~isSummarizing)

\* A summary of a conversation of four messages has failed.
C26_Witness ==
    /\ lastOp.op = "summaryEnds"
    /\ ~lastOp.flag
    /\ ~isSummarizing
    /\ summaryContent[1] = SUMMARY_ERROR
    /\ Len(conversations[currentChatId].messages) >= 4

\* C27: the history given to the remote chat by a plain-text turn is the
\* messages its conversation held before the turn, in order, without the
\* error-role and the image-bearing ones, whether the updater that pushes the
\* user message and the placeholder has run or not when the history is built.
C27_HistoryIsPriorMessages ==
    \A t \in Turns :
        LET prior == SelectSeq(turns[t].before,
                               LAMBDA m : m.role # ERROR /\ m.imageUrl = NULL)
            expected == [i \in 1..Len(prior) |->
                            [role |-> prior[i].role, text |-> prior[i].content]]
        IN  \A h \in turns[t].histories : h = expected

\* C28: in every step, a message that is removed from a conversation that
\* stays in the store, or replaced at its position, is the placeholder or
\* streamed model message of the turn in flight whose result or error the step
\* applies; every other message keeps its position, also an error-role message
\* appended while the turn was in flight.
C28_PopRemovesOwnPlaceholder ==
    [][ \A id \in DOMAIN conversations \cap DOMAIN conversations' :
            LET old == conversations[id].messages
                new == conversations'[id].messages
            IN  \A i \in 1..Len(old) :
                    (\/ i > Len(new)
                     \/ new[i].role # old[i].role
                     \/ (old[i].role # MODEL /\ new[i] # old[i])) =>
                        /\ old[i].role = MODEL
                        /\ \E t \in Turns :
                               /\ InFlight(t)
                               /\ lastOp'.t = t
                               /\ turns[t].chat = id
                               /\ turns[t].idx = i
      ]_vars

\* C29: the submitMessage call of a speech transcript delivered while a turn is
\* in flight (isLoading true at the time of the call) starts no turn: it pushes
\* no message and leaves the turns and isLoading as they are.
C29_SpeechSubmitSeesLoading ==
    [][ (lastOp'.op = "speechSubmit" /\ timers' # timers /\ isLoading) =>
            /\ ~lastOp'.flag
            /\ turns' = turns
            /\ conversations' = conversations
            /\ isLoading' = isLoading
      ]_vars

\* C30: a turn writes to the conversation that was active when it was
\* submitted: its conversation is that one, and no step of a turn or of its
\* title task changes the messages or the title of another conversation.
C30_OutputGoesToSubmittingChat ==
    /\ [](\A t \in Turns : turns[t].chat = turns[t].active)
    /\ [][ \A t \in 1..Len(turns') :
               lastOp'.t = t =>
                   \A k \in DOMAIN conversations \cap DOMAIN conversations' :
                       k # turns'[t].active => conversations'[k] = conversations[k]
         ]_vars
    /\ [][ (lastOp'.op = "titleResolves" /\ titleTasks' # titleTasks) =>
               /\ \E t \in Turns : turns[t].titled /\ turns[t].active = lastOp'.id
               /\ \A k \in DOMAIN conversations \cap DOMAIN conversations' :
                      k # lastOp'.id => conversations'[k] = conversations[k]
         ]_vars

\* The operations by which a turn writes to the store after its first await.
TurnOutputOps == { "chunk", "streamBreaks", "streamEnds", "turnFails",
                   "imageGenerated", "imageProcessed" }

\* The step is a chunk, result, stop marker or error of a turn whose conversation
\* was deleted while the turn was in flight, or the title result of such a turn.
LateAfterDelete ==
    /\ lastOp' # lastOp \/ turns' # turns \/ titleTasks' # titleTasks
    /\ \/ /\ lastOp'.op \in TurnOutputOps
          /\ lastOp'.t \in Turns
          /\ turns[lastOp'.t].deleted
       \/ /\ lastOp'.op = "titleResolves"
          /\ \E t \in Turns : /\ turns[t].deleted
                              /\ turns[t].titled
                              /\ turns[t].chat = lastOp'.id

\* C31: once the conversation of a turn in flight has been deleted, every later
\* chunk, result, stop marker, error and title result of that turn leaves the
\* store as it is: the conversation is not re-created and no other conversation
\* changes.
C31_LateOutputAfterDeleteIsNoOp ==
    [][ LateAfterDelete => conversations' = conversations ]_vars

\* A message that holds the loading sentinel or ends with the cursor glyph.
HoldsSentinelOrGlyph(m) ==
    m.content = LOADING_INDICATOR_CONTENT \/ EndsWith(m.content, GLYPH)

\* C32: right after the load effect has restored the store from localStorage, no
\* message holds the loading sentinel or a cursor glyph and isLoading is false,
\* also when the page was reloaded while a turn was in flight.
C32_NoPlaceholderRestored ==
    lastOp.op = "bootstrap"
        => /\ ~isLoading
           /\ \A id \in DOMAIN conversations :
                  \A i \in 1..Len(conversations[id].messages) :
                      ~HoldsSentinelOrGlyph(conversations[id].messages[i])

\* C33: the image preview is set only while an image file is staged, also when
\* the read of the file completes after the image was removed or the message was
\* submitted; and the user message pushed by a submit carries an image exactly
\* when the turn was submitted with a staged file.
C33_PreviewImpliesFile ==
    /\ imagePreview # NULL => imageFile # NULL
    /\ \A t \in Turns :
           /\ lastOp.op \in {"submit", "speechSubmit"}
           /\ lastOp.t = t
           /\ turns[t].chat \in DOMAIN conversations
           /\ turns[t].idx - 1 \in 1..Len(conversations[turns[t].chat].messages)
           => LET userMessage == conversations[turns[t].chat].messages[turns[t].idx - 1]
              IN  (userMessage.imageUrl # NULL) <=> (turns[t].file # NULL)

\* C34: creating a conversation never reuses an id: a startNewChat step adds
\* exactly one entry to the store and leaves every existing entry as it is, and
\* the conversation deleteChat synthesizes for an emptied store does not get the
\* id of the conversation being deleted.
C34_FreshIdOnCreate ==
    [][ /\ ( lastOp'.op = "startNewChat" /\ now' = now )
            => /\ Cardinality(DOMAIN conversations') = Cardinality(DOMAIN conversations) + 1
               /\ \A id \in DOMAIN conversations :
                      id \in DOMAIN conversations' /\ conversations'[id] = conversations[id]
        /\ ( lastOp'.op = "deleteChat" /\ lastOp'.flag /\ now' = now )
            => /\ lastOp'.id \notin DOMAIN conversations'
               /\ Cardinality(DOMAIN conversations') = 1
      ]_vars

\* The failure text that belongs to a path of submitMessage.
ErrorTextOfPath(path) ==
    CASE path = "generate" -> ERR_GENERATE
      [] path = "image" -> ERR_IMAGE
      [] OTHER -> ERR_GENERIC

\* C35: the error message a failed turn leaves is the text of the path the turn
\* took: image generation, image understanding or plain text, for every
\* combination of content and attachment, with and without an API key.
C35_ErrorTextMatchesPath ==
    \A t \in Turns :
        /\ lastOp.op \in {"turnFails", "submit", "speechSubmit"}
        /\ lastOp.flag
        /\ lastOp.t = t
        /\ turns[t].outcome = "error"
        /\ turns[t].chat \in DOMAIN conversations
        => LET messages == conversations[turns[t].chat].messages
               last == messages[Len(messages)]
           IN  /\ last.role = ERROR
               /\ last.content[1] = ErrorTextOfPath(turns[t].path)

\* The content with surrounding blanks and the directive removed.
PromptText(messageContent) ==
    Trim(Substring(Trim(messageContent), Len(GENERATE_DIRECTIVE)))

\* The content is the directive, possibly between blanks, with nothing after it.
IsBareDirective(messageContent) ==
    /\ StartsWith(TrimStart(messageContent), GENERATE_DIRECTIVE)
    /\ Trim(Substring(TrimStart(messageContent), Len(GENERATE_DIRECTIVE))) = <<>>

\* C36: for a content whose trimmed form starts with '/generate ', the prompt of
\* the image-generation path, echoed in the model message, is the content without
\* the directive and the surrounding blanks; a directive with nothing after it
\* ends in the 'provide a prompt' error without a remote call.
C36_PromptIsContentWithoutDirective ==
    \A t \in Turns :
        /\ ( IsGenerate(turns[t].content) /\ apiKey )
            => /\ turns[t].path = "generate"
               /\ PromptOf(turns[t].content) = PromptText(turns[t].content)
               /\ ( lastOp.op = "imageGenerated" /\ lastOp.t = t
                    /\ turns[t].chat \in DOMAIN conversations )
                   => LET messages == conversations[turns[t].chat].messages
                      IN  messages[Len(messages)].content
                              = <<">", " ">> \o PromptText(turns[t].content)
        /\ ( IsBareDirective(turns[t].content) /\ apiKey )
            => /\ turns[t].outcome = "error"
               /\ turns[t].remote = 0

\* C37: a plain-text turn stopped before its first chunk was applied ends with
\* no chunk applied and its model message exactly the stop marker; a turn
\* stopped after chunks were applied, before the stream ended, ends as the
\* response applied so far followed by the marker; isLoading is false.
C37_StopBeforeFirstChunk ==
    \A t \in Turns :
        ( turns[t].path = "text" /\ turns[t].stopReq /\ turns[t].pc = "done"
          /\ turns[t].stopPc \in {"sendMessageStream", "stream"}
          /\ HasModelMessage(t) )
            => /\ ModelMessage(t) = Message(MODEL, turns[t].stopFull \o STOP_MARKER, NULL)
               /\ turns[t].fullResponse = turns[t].stopFull
               /\ ~isLoading

\* The state submitMessage may change before its first await.
SubmitFrame == << conversations, isLoading, userInput, imageFile, imagePreview,
                  isStopped, turns >>

\* C38: submitMessage of a blank draft with no staged image, or with no active
\* conversation, changes nothing: messages, isLoading, draft, staging slot and
\* stop flag stay as they are and no turn starts.  An accepted submit leaves the
\* draft empty, the staging slot empty and the stop flag reset in the state in
\* which its remote call is in flight.
C38_RejectedSubmitChangesNothing ==
    [][ /\ \A text \in DraftTexts, file \in {NULL} \cup {f.name : f \in ValidFiles} :
               ~Accepts(text, Closure(FALSE, file, file, NoChat, FALSE))
        /\ lastOp'.op = "handleSendMessage" =>
            /\ ( (Trim(userInput) = <<>> /\ imageFile = NULL) \/ currentChatId = NoChat )
                   => UNCHANGED SubmitFrame
            /\ turns' # turns
                   => /\ userInput' = <<>>
                      /\ imageFile' = NULL
                      /\ imagePreview' = NULL
                      /\ isStopped' = FALSE
                      /\ Len(turns') = Len(turns) + 1
      ]_vars

\* A blank draft was sent with no image staged, after a turn that was stopped:
\* the submit was rejected and the stop flag of that turn is still set.
C38_Witness ==
    /\ lastOp.op = "handleSendMessage"
    /\ ~lastOp.flag
    /\ userInput = <<" ">>
    /\ imageFile = NULL
    /\ currentChatId # NoChat
    /\ ~isLoading
    /\ isStopped
    /\ Len(turns) = 1

====
